---- MODULE Spec2Model ----
(***************************************************************************)
(* Linear regression by batch gradient descent (src/grad_desc.c).          *)
(*                                                                         *)
(* A C double is modelled as a rational number <<num, den>> in lowest      *)
(* terms with den > 0.  Every arithmetic result is rounded to mant_dig     *)
(* significant bits, to nearest and ties to even, as IEEE 754 does with    *)
(* 53 bits; with mant_dig = 0 nothing is rounded and the arithmetic is     *)
(* exact.  Spec and SpecFn explore the exact arithmetic, SpecRounded both. *)
(* The compile time configuration (DATA_SIZE, STEPS, LEARNING_RATE, X_UB,  *)
(* NOISE_UB) is drawn from small sets in Init; TRUE_A, TRUE_B and the      *)
(* initial coefficients {1, 0} are the program's own.  rand() is an        *)
(* arbitrary value of 0..RAND_MAX on every call.  The report holds the     *)
(* arguments of the printf calls; the clock readings and the elapsed time  *)
(* they print are left out.                                                *)
(***************************************************************************)
EXTENDS Integers, Sequences, FiniteSets, TLC

VARIABLES
    mant_dig,       \* significant bits of a double (0: exact arithmetic)
    n,              \* main: int n = DATA_SIZE
    steps,          \* STEPS
    learning_rate,  \* LEARNING_RATE
    x_ub,           \* X_UB
    noise_ub,       \* NOISE_UB
    pc,             \* position of main
    i,              \* main: loop counter
    current_coefs,  \* main: struct ab current_coefs
    data,           \* contents of the x and y arrays
    rands,          \* the values rand() returned, in call order
    current_loss,   \* main: double current_loss
    report,         \* arguments of the printf calls, in order
    heap,           \* state of the three malloc'ed buffers
    allocs,         \* number of malloc calls per buffer
    frees,          \* number of free calls per buffer
    fault,          \* an access outside a live buffer has happened
    gen_n,          \* the n get_random_data was called with
    eval_n,         \* the n of every get_loss_gradient / get_loss call
    exit_status,    \* termination status of the process
    calls,          \* number of do_step calls made so far
    ret             \* SpecFn: the function called and the value it returned

vars == <<mant_dig, n, steps, learning_rate, x_ub, noise_ub, pc, i, current_coefs, data,
          rands, current_loss, report, heap, allocs, frees, fault, gen_n,
          eval_n, exit_status, calls, ret>>

config == <<mant_dig, n, steps, learning_rate, x_ub, noise_ub>>

(***************************************************************************)
(* Bounds of the model.                                                    *)
(***************************************************************************)
MaxN == 2
MaxSteps == 2
MaxUb == 1
RAND_MAX == 2
MaxStatus == 1
MaxVal == 1
MaxDen == 1024
MANT_DIG == 4

\* #define TRUE_A, #define TRUE_B
TRUE_A == 4
TRUE_B == 2

(***************************************************************************)
(* Exact rational arithmetic.                                              *)
(***************************************************************************)
Abs(k) == IF k < 0 THEN -k ELSE k

RECURSIVE GCD(_, _)
GCD(p, q) == IF q = 0 THEN p ELSE GCD(q, p % q)

Norm(p, q) ==
    LET s == IF q < 0 THEN -1 ELSE 1
        g == GCD(Abs(p), Abs(q))
    IN  <<(s * p) \div g, (s * q) \div g>>

FromInt(k) == <<k, 1>>

Zero == FromInt(0)

RAdd(p, q) ==
    LET g == GCD(p[2], q[2])
    IN  Norm(p[1] * (q[2] \div g) + q[1] * (p[2] \div g), (p[2] \div g) * q[2])

RNeg(p) == <<-p[1], p[2]>>

RSub(p, q) == RAdd(p, RNeg(q))

RMul(p, q) ==
    LET g1 == GCD(Abs(p[1]), q[2])
        g2 == GCD(Abs(q[1]), p[2])
    IN  IF p[1] = 0 \/ q[1] = 0 THEN Zero
        ELSE <<(p[1] \div g1) * (q[1] \div g2), (p[2] \div g2) * (q[2] \div g1)>>

RDivInt(p, k) == RMul(p, Norm(1, k))

RLeq(p, q) == RSub(p, q)[1] <= 0

RLt(p, q) == RSub(p, q)[1] < 0

(***************************************************************************)
(* Arithmetic on doubles: the exact result, rounded.                       *)
(***************************************************************************)
RECURSIVE Pow(_, _)
Pow(b, e) == IF e = 0 THEN 1 ELSE b * Pow(b, e - 1)

\* a / den > 0 is scaled by a power of two (up / dn) into [2^(P-1), 2^P),
\* rounded there to an integer, and scaled back.
RECURSIVE RoundScaled(_, _, _, _, _)
RoundScaled(a, den, up, dn, P) ==
    IF a < Pow(2, P - 1) * den THEN RoundScaled(2 * a, den, 2 * up, dn, P)
    ELSE IF a >= Pow(2, P) * den THEN RoundScaled(a, 2 * den, up, 2 * dn, P)
    ELSE LET m0 == a \div den
             rem == a % den
             m == IF 2 * rem > den \/ (2 * rem = den /\ m0 % 2 = 1)
                  THEN m0 + 1 ELSE m0
         IN  Norm(m * dn, up)

RoundTo(q, P) ==
    IF q[1] = 0 THEN Zero
    ELSE IF q[1] < 0 THEN RNeg(RoundScaled(-q[1], q[2], 1, 1, P))
    ELSE RoundScaled(q[1], q[2], 1, 1, P)

Rnd(q) == IF mant_dig = 0 THEN q ELSE RoundTo(q, mant_dig)

FAdd(p, q) == Rnd(RAdd(p, q))

FSub(p, q) == Rnd(RSub(p, q))

FMul(p, q) == Rnd(RMul(p, q))

FDivInt(p, k) == Rnd(RDivInt(p, k))

(***************************************************************************)
(* struct ab                                                               *)
(***************************************************************************)
ab(a, b) == [a |-> a, b |-> b]

(***************************************************************************)
(* get_random_number: ((double) rand() / (double) RAND_MAX) * upper_bound, *)
(* r being the value rand() returned.                                      *)
(***************************************************************************)
\* Mutant: rand() is scaled by the bound without the division by RAND_MAX.
get_random_number_unscaled(r, upper_bound) ==
    FMul(FromInt(r), FromInt(upper_bound))

get_random_number(r, upper_bound) ==
    FMul(FDivInt(FromInt(r), RAND_MAX), FromInt(upper_bound))

(***************************************************************************)
(* get_random_data: the contents of the two arrays after the fill loop.    *)
(* rs[2*k] and rs[2*k+1] are the two rand() results of iteration k.        *)
(***************************************************************************)
get_random_data(m, true_coefs, xub, nub, rs) ==
    LET x == [k \in 0..(m - 1) |-> get_random_number(rs[2 * k], xub)]
        y == [k \in 0..(m - 1) |->
                 FAdd(FAdd(FMul(true_coefs.a, x[k]), true_coefs.b),
                      get_random_number(rs[2 * k + 1], nub))]
    IN  [x |-> x, y |-> y]

(***************************************************************************)
(* get_loss: square_sum accumulated for i = 0 .. n-1, then divided by n.   *)
(***************************************************************************)
RECURSIVE diff_loop(_, _, _, _, _)
diff_loop(d, m, coefs, k, acc) ==
    IF k < m
    THEN diff_loop(d, m, coefs, k + 1,
                   FAdd(acc, FSub(d.y[k], FAdd(FMul(d.x[k], coefs.a), coefs.b))))
    ELSE acc

sum_of_differences(d, m, coefs) == diff_loop(d, m, coefs, 0, Zero)

RECURSIVE loss_loop(_, _, _, _, _)
loss_loop(d, m, coefs, k, square_sum) ==
    IF k < m
    THEN LET x == d.x[k]
             y_true == d.y[k]
             y_pred == FAdd(FMul(x, coefs.a), coefs.b)
             diff == FSub(y_true, y_pred)
         IN  loss_loop(d, m, coefs, k + 1, FAdd(square_sum, FMul(diff, diff)))
    ELSE square_sum

\* Mutant: the sum of the differences, not of their squares.
get_loss_unsquared(d, m, coefs) ==
    FDivInt(sum_of_differences(d, m, coefs), m)

get_loss(d, m, coefs) == FDivInt(loss_loop(d, m, coefs, 0, Zero), m)

(***************************************************************************)
(* get_loss_gradient: a_grad and b_grad accumulated for i = 0 .. n-1.      *)
(***************************************************************************)
RECURSIVE grad_loop(_, _, _, _, _)
grad_loop(d, m, coefs, k, acc) ==
    IF k < m
    THEN LET x == d.x[k]
             y_true == d.y[k]
             r == FSub(y_true, FAdd(FMul(coefs.a, x), coefs.b))
         IN  grad_loop(d, m, coefs, k + 1,
                       ab(FAdd(acc.a, FMul(RNeg(x), r)), FAdd(acc.b, RNeg(r))))
    ELSE acc

\* Mutant: the factor 2 of the derivative is left out.
get_loss_gradient_unscaled(d, m, coefs) ==
    LET s == grad_loop(d, m, coefs, 0, ab(Zero, Zero))
    IN  ab(FDivInt(s.a, m), FDivInt(s.b, m))

get_loss_gradient(d, m, coefs) ==
    LET s == grad_loop(d, m, coefs, 0, ab(Zero, Zero))
    IN  ab(FDivInt(FMul(s.a, FromInt(2)), m), FDivInt(FMul(s.b, FromInt(2)), m))

(***************************************************************************)
(* do_step                                                                 *)
(***************************************************************************)
\* Mutant: the step is taken up the gradient.
do_step_ascent(d, m, coefs, rate) ==
    LET grad == get_loss_gradient(d, m, coefs)
    IN  ab(FAdd(coefs.a, FMul(rate, grad.a)), FAdd(coefs.b, FMul(rate, grad.b)))

\* Mutant: b is updated from the gradient at the already updated a.
do_step_in_place(d, m, coefs, rate) ==
    LET new_a == FSub(coefs.a, FMul(rate, get_loss_gradient(d, m, coefs).a))
        grad == get_loss_gradient(d, m, ab(new_a, coefs.b))
    IN  ab(new_a, FSub(coefs.b, FMul(rate, grad.b)))

do_step(d, m, coefs, rate) ==
    LET grad == get_loss_gradient(d, m, coefs)
    IN  ab(FSub(coefs.a, FMul(rate, grad.a)), FSub(coefs.b, FMul(rate, grad.b)))

(***************************************************************************)
(* main                                                                    *)
(***************************************************************************)
Rates == {<<1, 2>>, <<1, 4>>}

InitialCoefs == ab(FromInt(1), FromInt(0))

TrueCoefs == ab(FromInt(TRUE_A), FromInt(TRUE_B))

\* One step multiplies the denominator of the coefficients by at most
\* RAND_MAX^2 * n * den(rate); a configuration is explored when the
\* denominators of its whole run stay below MaxDen.
Fits(m, s, rate) == Pow(RAND_MAX * RAND_MAX * m * rate[2], s) <= MaxDen

Buffers == {"x", "y", "data"}

ExitStatuses == 0..MaxStatus

InitMain ==
    /\ n \in 1..MaxN
    /\ steps \in 0..MaxSteps
    /\ learning_rate \in Rates
    /\ mant_dig = 0 => Fits(n, steps, learning_rate)
    /\ x_ub \in 1..MaxUb
    /\ noise_ub \in 1..MaxUb
    /\ pc = "generate"
    /\ i = 0
    /\ current_coefs = InitialCoefs
    /\ data = [x |-> <<>>, y |-> <<>>]
    /\ rands = <<>>
    /\ current_loss = Zero
    /\ report = <<>>
    /\ heap = [b \in Buffers |-> "none"]
    /\ allocs = [b \in Buffers |-> 0]
    /\ frees = [b \in Buffers |-> 0]
    /\ fault = FALSE
    /\ gen_n = 0
    /\ eval_n = {}
    /\ exit_status = -1
    /\ calls = 0
    /\ ret = [fn |-> "none"]

\* The indices a loop  for (int i = 0; i < m; i++)  visits.
LoopIndices(m) == 0..(m - 1)

\* Reading or writing x[k], y[k] for every k of ks through the holder `data`
\* is valid when the three buffers are live and ks lies inside the arrays.
ValidAccess(ks) ==
    /\ \A b \in Buffers : heap[b] = "live"
    /\ ks \subseteq 0..(gen_n - 1)

\* Line 162 with all three malloc calls succeeding: the arrays are filled
\* from 2*n calls of rand(), then lines 164-167 print the two header lines.
Generate ==
    /\ pc = "generate"
    /\ \E rs \in [0..(2 * n - 1) -> 0..RAND_MAX] :
          /\ rands' = rs
          /\ data' = get_random_data(n, TrueCoefs, x_ub, noise_ub, rs)
    /\ gen_n' = n
    /\ heap' = [b \in Buffers |-> "live"]
    /\ allocs' = [b \in Buffers |-> allocs[b] + 1]
    /\ fault' = (fault \/ ~(LoopIndices(n) \subseteq 0..(n - 1)))
    /\ report' = <<[line |-> "computing"], [line |-> "size", n |-> n]>>
    /\ i' = 0
    /\ pc' = "loop"
    /\ UNCHANGED <<config, current_coefs, current_loss, frees, eval_n,
                   exit_status, calls, ret>>

\* Line 162 with a malloc call returning NULL: the result is not tested, the
\* fill loop writes through the null pointer and the process is killed.
GenerateNoMemory ==
    /\ pc = "generate"
    /\ \E failed \in (SUBSET Buffers) \ {{}} :
          /\ heap' = [b \in Buffers |-> IF b \in failed THEN "none" ELSE "live"]
          /\ allocs' = [b \in Buffers |-> allocs[b] + 1]
    /\ gen_n' = n
    /\ fault' = TRUE
    /\ pc' = "killed"
    /\ exit_status' \in ExitStatuses \ {0}
    /\ UNCHANGED <<config, i, current_coefs, data, rands, current_loss,
                   report, frees, eval_n, calls, ret>>

\* Mutant: the step also writes its prediction into the dataset.
StepWritesData ==
    /\ pc = "loop"
    /\ i < steps
    /\ current_coefs' = do_step(data, n, current_coefs, learning_rate)
    /\ data' = [data EXCEPT !.y[0] = FAdd(FMul(current_coefs.a, data.x[0]),
                                          current_coefs.b)]
    /\ eval_n' = eval_n \cup {n}
    /\ fault' = (fault \/ ~ValidAccess(LoopIndices(n)))
    /\ calls' = calls + 1
    /\ i' = i + 1
    /\ UNCHANGED <<config, pc, rands, current_loss, report, heap,
                   allocs, frees, gen_n, exit_status, ret>>

\* Lines 168-170, one iteration: i < STEPS, do_step, i++.
Step ==
    /\ pc = "loop"
    /\ i < steps
    /\ current_coefs' = do_step(data, n, current_coefs, learning_rate)
    /\ eval_n' = eval_n \cup {n}
    /\ fault' = (fault \/ ~ValidAccess(LoopIndices(n)))
    /\ calls' = calls + 1
    /\ i' = i + 1
    /\ UNCHANGED <<config, pc, data, rands, current_loss, report, heap,
                   allocs, frees, gen_n, exit_status, ret>>

\* Mutant: the loop is left one iteration early.
ReportEarly ==
    /\ pc = "loop"
    /\ ~(i < steps - 1)
    /\ current_loss' = get_loss(data, n, current_coefs)
    /\ eval_n' = eval_n \cup {n}
    /\ fault' = (fault \/ ~ValidAccess(LoopIndices(n)))
    /\ report' = report \o
          <<[line |-> "finished", steps |-> i,
             loss |-> get_loss(data, n, current_coefs)],
            [line |-> "coefficients", a |-> current_coefs.a,
             b |-> current_coefs.b],
            [line |-> "time"]>>
    /\ pc' = "free_x"
    /\ UNCHANGED <<config, i, current_coefs, data, rands, heap, allocs,
                   frees, gen_n, exit_status, calls, ret>>

\* Lines 168-177 once i < STEPS is false: the final loss and the report.
Report ==
    /\ pc = "loop"
    /\ ~(i < steps)
    /\ current_loss' = get_loss(data, n, current_coefs)
    /\ eval_n' = eval_n \cup {n}
    /\ fault' = (fault \/ ~ValidAccess(LoopIndices(n)))
    /\ report' = report \o
          <<[line |-> "finished", steps |-> i,
             loss |-> get_loss(data, n, current_coefs)],
            [line |-> "coefficients", a |-> current_coefs.a,
             b |-> current_coefs.b],
            [line |-> "time"]>>
    /\ pc' = "free_x"
    /\ UNCHANGED <<config, i, current_coefs, data, rands, heap, allocs,
                   frees, gen_n, exit_status, calls, ret>>

\* free(p) of buffer b, read through the holder when b is one of the arrays.
Free(b, next) ==
    /\ fault' = (fault \/ heap[b] # "live" \/ heap["data"] # "live")
    /\ heap' = [heap EXCEPT ![b] = "freed"]
    /\ frees' = [frees EXCEPT ![b] = @ + 1]
    /\ pc' = next
    /\ UNCHANGED <<config, i, current_coefs, data, rands, current_loss,
                   report, allocs, gen_n, eval_n, exit_status, calls, ret>>

\* Line 179
FreeX == pc = "free_x" /\ Free("x", "free_y")

\* Mutant: line 180 frees *(data + 0) a second time.
FreeXAgain == pc = "free_y" /\ Free("x", "free_data")

\* Line 180
FreeY == pc = "free_y" /\ Free("y", "free_data")

\* Line 181
FreeData == pc = "free_data" /\ Free("data", "return")

\* Line 182: main is declared void and returns no value, so the termination
\* status handed to the host is whatever the build leaves behind.
Return ==
    /\ pc = "return"
    /\ exit_status' \in ExitStatuses
    /\ pc' = "exited"
    /\ UNCHANGED <<config, i, current_coefs, data, rands, current_loss,
                   report, heap, allocs, frees, fault, gen_n, eval_n, calls, ret>>

Next ==
    \/ Generate
    \/ GenerateNoMemory
    \/ Step
    \/ Report
    \/ FreeX
    \/ FreeY
    \/ FreeData
    \/ Return

Init == mant_dig = 0 /\ InitMain

Spec == Init /\ [][Next]_vars

\* The same program with its arithmetic exact or rounded.  A rounded run of
\* MaxSteps steps passes through every shorter rounded run of its dataset.
InitRounded ==
    /\ mant_dig \in {0, MANT_DIG}
    /\ InitMain
    /\ mant_dig # 0 => steps = MaxSteps

SpecRounded == InitRounded /\ [][Next]_vars

(***************************************************************************)
(* The functions called on their own: a caller passes any dataset of n     *)
(* observations, any coefficient pair and any learning rate.               *)
(***************************************************************************)
DataVals == {FromInt(k) : k \in -1..MaxVal}

CoefVals == {FromInt(-1), Zero, <<1, 2>>, FromInt(2)}

InitCall ==
    /\ n \in 1..MaxN
    /\ steps = 0
    /\ learning_rate \in Rates \cup {FromInt(1)}
    /\ x_ub = 0
    /\ noise_ub = 0
    /\ pc = "call"
    /\ i = 0
    /\ current_coefs \in {ab(a, b) : a \in CoefVals, b \in CoefVals}
    /\ data \in [x : [0..(n - 1) -> DataVals], y : [0..(n - 1) -> DataVals]]
    /\ rands = <<>>
    /\ current_loss = Zero
    /\ report = <<>>
    /\ heap = [b \in Buffers |-> "live"]
    /\ allocs = [b \in Buffers |-> 1]
    /\ frees = [b \in Buffers |-> 0]
    /\ fault = FALSE
    /\ gen_n = n
    /\ eval_n = {}
    /\ exit_status = -1
    /\ calls = 0
    /\ ret = [fn |-> "none"]

Call(fn, value) ==
    /\ ret' = [fn |-> fn, value |-> value]
    /\ eval_n' = eval_n \cup {n}
    /\ fault' = (fault \/ ~ValidAccess(LoopIndices(n)))
    /\ pc' = "returned"
    /\ UNCHANGED <<config, i, current_coefs, data, rands, current_loss,
                   report, heap, allocs, frees, gen_n, exit_status, calls>>

CallLoss ==
    /\ pc = "call"
    /\ Call("get_loss", get_loss(data, n, current_coefs))

CallGradient ==
    /\ pc = "call"
    /\ Call("get_loss_gradient", get_loss_gradient(data, n, current_coefs))

CallStep ==
    /\ pc = "call"
    /\ Call("do_step", do_step(data, n, current_coefs, learning_rate))

NextFn ==
    \/ CallLoss
    \/ CallGradient
    \/ CallStep

InitFn == mant_dig = 0 /\ InitCall

SpecFn == InitFn /\ [][NextFn]_vars

(***************************************************************************)
(* Reference definitions for the properties below.                         *)
(***************************************************************************)
RECURSIVE SetSum(_, _)
SetSum(f, S) ==
    IF S = {} THEN Zero
    ELSE LET k == CHOOSE j \in S : TRUE
         IN  RAdd(f[k], SetSum(f, S \ {k}))

\* r_k = y_k - (a * x_k + b)
Residual(d, c, k) == RSub(d.y[k], RAdd(RMul(c.a, d.x[k]), c.b))

OnLine(d, c, k) == d.y[k] = RAdd(RMul(c.a, d.x[k]), c.b)

\* {a: 2 * sum_a / m, b: 2 * sum_b / m}
RefGradient(d, m, c) ==
    LET sum_a == SetSum([k \in 0..(m - 1) |->
                            RMul(RNeg(d.x[k]), Residual(d, c, k))], 0..(m - 1))
        sum_b == SetSum([k \in 0..(m - 1) |-> RNeg(Residual(d, c, k))],
                        0..(m - 1))
    IN  ab(RDivInt(RMul(FromInt(2), sum_a), m),
           RDivInt(RMul(FromInt(2), sum_b), m))

\* The mean squared error is quadratic in each coefficient, so its central
\* difference with step 1 is its partial derivative.
LossSlope(d, m, c) ==
    LET one == FromInt(1)
    IN  ab(RDivInt(RSub(get_loss(d, m, ab(RAdd(c.a, one), c.b)),
                        get_loss(d, m, ab(RSub(c.a, one), c.b))), 2),
           RDivInt(RSub(get_loss(d, m, ab(c.a, RAdd(c.b, one))),
                        get_loss(d, m, ab(c.a, RSub(c.b, one)))), 2))

RECURSIVE Iterate(_, _, _, _, _)
Iterate(d, m, c, rate, k) ==
    IF k = 0 THEN c ELSE do_step(d, m, Iterate(d, m, c, rate, k - 1), rate)

AfterLoop == {"free_x", "free_y", "free_data", "return", "exited"}

Generated == pc \in {"loop"} \cup AfterLoop

Noise(k) == RSub(data.y[k], RAdd(RMul(TrueCoefs.a, data.x[k]), TrueCoefs.b))

(***************************************************************************)
(* C1: the loop of main applies do_step exactly `steps` times and then     *)
(* stops.  While looping, the number of do_step calls equals i and never   *)
(* exceeds steps; once the loop is left, i = steps, exactly steps calls    *)
(* were made, the coefficients are the steps-fold iterate of do_step from  *)
(* the initial pair, the report prints steps together with the loss and    *)
(* coefficients of that iterate, and with steps = 0 these are the initial  *)
(* coefficients unchanged.                                                 *)
(***************************************************************************)
C1_ExactlyStepsIterations ==
    /\ pc = "loop" => calls = i /\ i <= steps
    /\ pc \in AfterLoop =>
          /\ i = steps
          /\ calls = steps
          /\ current_coefs = Iterate(data, n, InitialCoefs, learning_rate, steps)
          /\ current_loss = get_loss(data, n, current_coefs)
          /\ Len(report) = 5
          /\ report[3] = [line |-> "finished", steps |-> steps,
                          loss |-> current_loss]
          /\ report[4] = [line |-> "coefficients", a |-> current_coefs.a,
                          b |-> current_coefs.b]
          /\ steps = 0 => current_coefs = InitialCoefs

C1_Witness ==
    /\ pc = "exited"
    /\ steps >= 2
    /\ calls = steps
    /\ current_coefs # InitialCoefs
    /\ Iterate(data, n, InitialCoefs, learning_rate, 1) # current_coefs

(***************************************************************************)
(* C2: do_step returns {a - rate * grad.a, b - rate * grad.b}, grad being  *)
(* the gradient at the coefficients passed in: both components use the     *)
(* pre-step coefficients, and the pair passed in stays as it was.          *)
(***************************************************************************)
C2_StepFormula ==
    /\ [](ret.fn = "do_step" =>
            LET g == RefGradient(data, n, current_coefs)
            IN  /\ ret.value.a =
                      RSub(current_coefs.a, RMul(learning_rate, g.a))
                /\ ret.value.b =
                      RSub(current_coefs.b, RMul(learning_rate, g.b)))
    /\ [][current_coefs' = current_coefs]_vars

C2_Witness ==
    /\ ret.fn = "do_step"
    /\ n >= 2
    /\ ret.value.a # current_coefs.a
    /\ ret.value.b # current_coefs.b
    /\ RefGradient(data, n, ret.value).b # RefGradient(data, n, current_coefs).b

(***************************************************************************)
(* C3: get_loss_gradient returns {2 * sum_a / n, 2 * sum_b / n} with       *)
(* sum_a the sum of -x_i * r_i and sum_b the sum of -r_i over all i, and   *)
(* this pair is the derivative of the mean squared error get_loss          *)
(* computes, in a and in b.                                                *)
(***************************************************************************)
C3_GradientClosedForm ==
    ret.fn = "get_loss_gradient" =>
        /\ ret.value = RefGradient(data, n, current_coefs)
        /\ ret.value = LossSlope(data, n, current_coefs)

C3_Witness ==
    /\ ret.fn = "get_loss_gradient"
    /\ n >= 2
    /\ data.x[0] # data.x[1]
    /\ ret.value.a # Zero
    /\ ret.value.b # Zero
    /\ ret.value.a # ret.value.b

C5_HalfOpenIntervals ==
    Generated =>
        \A k \in 0..(n - 1) :
            /\ RLeq(Zero, data.x[k]) /\ RLt(data.x[k], FromInt(x_ub))
            /\ RLeq(Zero, Noise(k)) /\ RLt(Noise(k), FromInt(noise_ub))

(***************************************************************************)
(* C5 amended: every x_i lies in the closed interval [0, x_ub] and every   *)
(* noise term, which is the value get_random_number(noise_ub) returned,    *)
(* lies in the closed interval [0, noise_ub]; a bound is produced exactly  *)
(* when rand() returns RAND_MAX.                                           *)
(***************************************************************************)
C5_ClosedIntervals ==
    Generated =>
        \A k \in 0..(n - 1) :
            /\ RLeq(Zero, data.x[k]) /\ RLeq(data.x[k], FromInt(x_ub))
            /\ RLeq(Zero, Noise(k)) /\ RLeq(Noise(k), FromInt(noise_ub))
            /\ Noise(k) = get_random_number(rands[2 * k + 1], noise_ub)
            /\ data.x[k] = FromInt(x_ub) <=> rands[2 * k] = RAND_MAX
            /\ Noise(k) = FromInt(noise_ub) <=> rands[2 * k + 1] = RAND_MAX

C5_Witness ==
    /\ Generated
    /\ n >= 2
    /\ \E k \in 0..(n - 1) : data.x[k] = FromInt(x_ub)
    /\ \E k \in 0..(n - 1) : Noise(k) = FromInt(noise_ub)
    /\ \E k \in 0..(n - 1) : RLt(Zero, data.x[k]) /\ RLt(data.x[k], FromInt(x_ub))

(***************************************************************************)
(* C6: once get_random_data has returned, no step of the run changes any   *)
(* x_i or y_i, and every gradient and loss evaluation is passed the n the  *)
(* dataset was generated with.                                             *)
(***************************************************************************)
C6_DatasetFrozen ==
    /\ [](eval_n \subseteq {gen_n})
    /\ [][pc # "generate" => data' = data]_vars

C6_Witness ==
    /\ pc = "free_x"
    /\ calls >= 2
    /\ eval_n = {gen_n}
    /\ gen_n >= 2
    /\ \A k \in 0..(n - 1) : data.x[k] # Zero

(***************************************************************************)
(* C8 as claimed: a run that reaches the end of main terminates with       *)
(* status 0.                                                               *)
(***************************************************************************)
C8_ExitStatusZero == pc = "exited" => exit_status = 0

(***************************************************************************)
(* C10: when the three allocations succeed, each buffer is allocated once  *)
(* and freed at most once, exactly once by the end of the run; every       *)
(* access of x and y uses an index of 0..n-1 of a live buffer; and a       *)
(* buffer is freed only after the final loss is computed and reported.     *)
(***************************************************************************)
C10_BufferLifetime ==
    pc # "killed" =>
        /\ ~fault
        /\ \A b \in Buffers :
              /\ allocs[b] = (IF pc = "generate" THEN 0 ELSE 1)
              /\ frees[b] <= 1
              /\ heap[b] = "freed" <=> frees[b] = 1
              /\ heap[b] = "live" <=> allocs[b] = 1 /\ frees[b] = 0
              /\ frees[b] = 1 => Len(report) = 5 /\ pc \in AfterLoop
              /\ pc = "exited" => frees[b] = 1
        /\ pc \in {"loop", "free_x"} => \A b \in Buffers : heap[b] = "live"

C10_Witness ==
    /\ pc = "exited"
    /\ calls >= 1
    /\ ~fault
    /\ \A b \in Buffers : allocs[b] = 1 /\ frees[b] = 1 /\ heap[b] = "freed"

(***************************************************************************)
(* The stability threshold of a dataset is 2 / lambda_max(H), H = (2 / m)  *)
(* [[sum x^2, sum x], [sum x, m]] being the Hessian of the mean squared    *)
(* error.  rate is below it exactly when I - (rate / 2) H is positive      *)
(* definite: its first entry and its determinant are positive.             *)
(***************************************************************************)
Stable(d, m, rate) ==
    LET idx == 0..(m - 1)
        one == FromInt(1)
        sxx == RDivInt(SetSum([k \in idx |-> RMul(d.x[k], d.x[k])], idx), m)
        sx == RDivInt(SetSum([k \in idx |-> d.x[k]], idx), m)
        m11 == RSub(one, RMul(rate, sxx))
        m22 == RSub(one, rate)
        m12 == RMul(rate, sx)
    IN  /\ RLt(Zero, m11)
        /\ RLt(Zero, RSub(RMul(m11, m22), RMul(m12, m12)))

====
